---- MODULE Spec2Model ----
(***************************************************************************)
(* The local data-store adapter of the investment tracker (LocalDataStore  *)
(* and LocalTable over an embedded SQLite database) and the one-shot       *)
(* migration job that loads the legacy userData.json into it.              *)
(***************************************************************************)
EXTENDS Integers, Sequences, FiniteSets, TLC

(***************************************************************************)
(* Bounds of the model                                                     *)
(***************************************************************************)
\* adapter calls that may be in flight at the same time
NumCalls == 2
\* timestamps callers pass are among 1..MaxTime
MaxTime == 3
\* the wall clock (new Date()) runs over 1..MaxClock
MaxClock == 2
\* AUTOINCREMENT counters stop at these values
MaxUserRowId == 2
MaxPortRowId == 2
\* snapshots inserted in a run that follows the snapshots of an owner over time
MaxHistory == 3

Calls == 1..NumCalls
Times == 1..MaxTime

(***************************************************************************)
(* Input domains                                                           *)
(***************************************************************************)
Emails == {"a@x.com", "b@x.com"}
\* "Orders" stands for every table name outside the known set
TableNames == {"Users", "Portfolios", "Orders"}
\* JS values handed over as portfolio_data: [t |-> typeof, v |-> identity/content]
JsString(s) == [t |-> "string", v |-> s]
JsObject(o) == [t |-> "object", v |-> o]
Payloads == {JsObject("holdings1"), JsString("{\"h\":2}")}
\* a timestamp argument the caller may leave out (0 is the falsy/absent value)
OptTimes == {0} \cup Times
NoRes == [kind |-> "none", rows |-> <<>>, changes |-> 0]

(***************************************************************************)
(* Pure helpers of the adapter                                             *)
(***************************************************************************)
\* JSON.stringify on the structured payloads of the model
JSONstringify(o) ==
    CASE o = "holdings1" -> "{\"h\":1}"
      [] o = "holdings2" -> "{\"h\":2}"
      [] o = "{\"h\":1}" -> "\"{\\\"h\\\":1}\""
      [] o = "{\"h\":2}" -> "\"{\\\"h\\\":2}\""
      [] OTHER -> "null"

\* (variant: JSON.stringify(portfolio_data) whatever its type)
SerializeAlways(p) == JSONstringify(p.v)

\* typeof portfolio_data === 'string' ? portfolio_data : JSON.stringify(portfolio_data)
Serialize(p) == IF p.t = "string" THEN p.v ELSE JSONstringify(p.v)

\* `given || new Date().toISOString()`
OrNow(given, now) == IF given # 0 THEN given ELSE now

\* String.prototype.includes on a tokenised query
Includes(q, tok) == \E i \in 1..Len(q) : q[i] = tok

\* query.match(/<kw>'([^']+)'/): the leftmost <kw> that is followed by a quote,
\* one or more non-quote tokens and a closing quote; <<>> when nothing matches,
\* otherwise <<captured tokens>>
RegexMatch(q, kw) ==
    LET Hit(i, j) == /\ q[i] = kw
                     /\ i + 1 <= Len(q) /\ q[i + 1] = "'"
                     /\ j >= i + 3 /\ j <= Len(q) /\ q[j] = "'"
                     /\ \A k \in (i + 2)..(j - 1) : q[k] # "'"
        Starts == {i \in 1..Len(q) : \E j \in 1..Len(q) : Hit(i, j)}
    IN  IF Starts = {} THEN <<>>
        ELSE LET i == CHOOSE x \in Starts : \A y \in Starts : x <= y
                 j == CHOOSE x \in 1..Len(q) : Hit(i, x)
             IN  <<SubSeq(q, i + 2, j - 1)>>

(***************************************************************************)
(* Statement texts the adapter hands to the engine.  A text is a sequence  *)
(* of tokens; the fixed statements are one token each.                     *)
(***************************************************************************)
InsertUsersSQL == <<"INSERT INTO Users (email, password, name, created_at) VALUES (?, ?, ?, ?)">>
InsertPortfoliosSQL == <<"INSERT INTO Portfolios (user_id, portfolio_data, last_updated) VALUES (?, ?, ?)">>
UpdatePortfoliosSQL == <<"UPDATE Portfolios SET portfolio_data = ?, last_updated = ? WHERE user_id = ?">>
SelectUsersSQL == <<"SELECT * FROM Users WHERE email = ?">>
SelectPortfoliosSQL == <<"SELECT * FROM Portfolios WHERE user_id = ? ORDER BY last_updated DESC LIMIT 1">>
DeletePortfoliosSQL == <<"DELETE FROM Portfolios WHERE user_id = ?">>
DeleteUsersSQL == <<"DELETE FROM Users WHERE email = ?">>
\* createTables: the two tables, then the three indexes (createIndexes.forEach)
CreateUsersSQL == <<"CREATE TABLE IF NOT EXISTS Users">>
CreatePortfoliosSQL == <<"CREATE TABLE IF NOT EXISTS Portfolios">>
CreateIndexSQL(name, table) == <<"CREATE INDEX IF NOT EXISTS", name, table>>
CreateSQL == <<CreateUsersSQL, CreatePortfoliosSQL,
               CreateIndexSQL("idx_users_email", "Users"),
               CreateIndexSQL("idx_portfolios_user_id", "Portfolios"),
               CreateIndexSQL("idx_portfolios_updated", "Portfolios")>>
CreateTexts == {CreateSQL[k] : k \in 1..Len(CreateSQL)}
FixedSQL == {InsertUsersSQL, InsertPortfoliosSQL, UpdatePortfoliosSQL, SelectUsersSQL,
             SelectPortfoliosSQL, DeletePortfoliosSQL, DeleteUsersSQL} \cup CreateTexts

(***************************************************************************)
(* Queries callers pass to search(), tokenised                             *)
(***************************************************************************)
ByEmail(e) == <<"SELECT * FROM Users ", "WHERE email=", "'", e, "'">>
ByOwner(e) == <<"SELECT * FROM Portfolios ", "WHERE user_id=", "'", e, "'">>
\* a filter that is no equality filter
NotOwner(e) == <<"SELECT * FROM Portfolios ", "WHERE user_id<>", "'", e, "'">>
\* an equality filter with an empty value
EmptyEmail == <<"SELECT * FROM Users ", "WHERE email=", "'", "'">>
\* a statement that is no SELECT at all
PurgeOwner(e) == <<"DELETE FROM Portfolios ", "WHERE user_id=", "'", e, "'">>
FromOrders == <<"SELECT * FROM Orders">>
Queries == {ByEmail(e) : e \in Emails} \cup {ByOwner(e) : e \in Emails}
           \cup {NotOwner(e) : e \in Emails}
           \cup {EmptyEmail, PurgeOwner("a@x.com"), FromOrders}

\* the one string a captured token sequence stands for ("" when it is no single value)
Joined(toks) == IF Len(toks) = 1 THEN toks[1] ELSE ""

(***************************************************************************)
(* The engine: what each statement does to the two tables                  *)
(***************************************************************************)
\* (variant: the column without its UNIQUE constraint)
EmailTakenNever(us, e) == FALSE

\* email TEXT UNIQUE NOT NULL
EmailTaken(us, e) == \E r \in us : r.email = e

\* FOREIGN KEY (user_id) REFERENCES Users(email): declared, but the connection
\* never turns foreign-key enforcement on, so the engine accepts any user_id
ForeignKeyViolated(us, owner) == FALSE

UserRow(id, e, pw, nm, cr) ==
    [ROWID |-> id, email |-> e, password |-> pw, name |-> nm, created_at |-> cr]
PortfolioRow(id, owner, data, lu) ==
    [ROWID |-> id, user_id |-> owner, portfolio_data |-> data, last_updated |-> lu]

\* (variant: INSERT OR IGNORE INTO Users ...)
ExecInsertUsersIgnore(us, seq, e, pw, nm, cr) ==
    IF \E r \in us : r.email = e
      THEN [err |-> "", users |-> us, seq |-> seq]
      ELSE [err |-> "", users |-> us \cup {UserRow(seq + 1, e, pw, nm, cr)}, seq |-> seq + 1]

\* (variant: INSERT OR REPLACE INTO Users ...)
ExecInsertUsersReplace(us, seq, e, pw, nm, cr) ==
    [err |-> "", seq |-> seq + 1,
     users |-> {r \in us : r.email # e} \cup {UserRow(seq + 1, e, pw, nm, cr)}]

\* INSERT INTO Users ...: the outcome of the statement
ExecInsertUsers(us, seq, e, pw, nm, cr) ==
    IF EmailTaken(us, e)
      THEN \* SQLITE_CONSTRAINT: UNIQUE constraint failed: Users.email
           [err |-> "Conflict", users |-> us, seq |-> seq]
      ELSE [err |-> "", users |-> us \cup {UserRow(seq + 1, e, pw, nm, cr)}, seq |-> seq + 1]

\* INSERT INTO Portfolios ...
ExecInsertPortfolios(us, ps, seq, owner, data, lu) ==
    IF ForeignKeyViolated(us, owner)
      THEN [err |-> "Storage", portfolios |-> ps, seq |-> seq]
      ELSE [err |-> "", portfolios |-> ps \cup {PortfolioRow(seq + 1, owner, data, lu)},
            seq |-> seq + 1]

\* the schema object a CREATE statement makes, and the table an index is on
Creates(text) ==
    CASE text = CreateUsersSQL -> "Users"
      [] text = CreatePortfoliosSQL -> "Portfolios"
      [] OTHER -> text[2]
OnTable(text) == IF Len(text) = 3 THEN text[3] ELSE ""
FullSchema == {Creates(t) : t \in CreateTexts}

\* (variant: DROP TABLE IF EXISTS ... before CREATE TABLE ...)
ExecCreateFresh(schema, us, ps, text) ==
    [err |-> OnTable(text) # "" /\ OnTable(text) \notin schema,
     schema |-> IF OnTable(text) # "" /\ OnTable(text) \notin schema
                  THEN schema ELSE schema \cup {Creates(text)},
     users |-> IF text = CreateUsersSQL THEN {} ELSE us,
     portfolios |-> IF text = CreatePortfoliosSQL THEN {} ELSE ps]

\* CREATE TABLE / CREATE INDEX ... IF NOT EXISTS: an object that exists is left
\* as it is, with its rows; an index on a table that does not exist is an error
ExecCreate(schema, us, ps, text) ==
    IF OnTable(text) # "" /\ OnTable(text) \notin schema
      THEN [err |-> TRUE, schema |-> schema, users |-> us, portfolios |-> ps]
      ELSE [err |-> FALSE, schema |-> schema \cup {Creates(text)},
            users |-> us, portfolios |-> ps]

\* (variant: DELETE FROM Portfolios without the WHERE clause)
RowsOfAny(ps, owner) == ps

\* WHERE user_id = ?
RowsOf(ps, owner) == {r \in ps : r.user_id = owner}

\* SELECT * FROM Users WHERE email = ?
SelectUsers(us, e) == {r \in us : r.email = e}

\* (variant: ORDER BY last_updated ASC LIMIT 1)
SelectOldest(ps, owner) ==
    IF {r \in ps : r.user_id = owner} = {} THEN {{}}
    ELSE {{r} : r \in {x \in {z \in ps : z.user_id = owner} :
                          \A y \in {z \in ps : z.user_id = owner} :
                              x.last_updated <= y.last_updated}}

\* ... ORDER BY last_updated DESC LIMIT 1: the possible answers, each a set of at
\* most one row (rows with equal last_updated come in an order SQL leaves open)
SelectNewest(ps, owner) ==
    IF RowsOf(ps, owner) = {} THEN {{}}
    ELSE {{r} : r \in {x \in RowsOf(ps, owner) :
                          \A y \in RowsOf(ps, owner) : y.last_updated <= x.last_updated}}

\* (variant: an upsert, INSERT when no row of the owner is there)
UpdatePortfoliosUpsert(ps, owner, data, now) ==
    IF \E r \in ps : r.user_id = owner
      THEN {IF r.user_id = owner
              THEN [r EXCEPT !.portfolio_data = data, !.last_updated = now]
              ELSE r : r \in ps}
      ELSE ps \cup {PortfolioRow(0, owner, data, now)}

\* UPDATE Portfolios SET portfolio_data = ?, last_updated = ? WHERE user_id = ?
UpdatePortfolios(ps, owner, data, now) ==
    {IF r.user_id = owner
        THEN [r EXCEPT !.portfolio_data = data, !.last_updated = now]
        ELSE r : r \in ps}

\* a statement passed through as written: <<users', portfolios', rows, error>>
ExecRaw(us, ps, text) ==
    LET v == IF Len(text) = 5 THEN text[4] ELSE ""
    IN  CASE text[1] = "SELECT * FROM Users " /\ text[2] = "WHERE email=" ->
               <<us, ps, SelectUsers(us, v), FALSE>>
          [] text[1] = "SELECT * FROM Portfolios " /\ text[2] = "WHERE user_id=" ->
               <<us, ps, RowsOf(ps, v), FALSE>>
          [] text[1] = "SELECT * FROM Portfolios " /\ text[2] = "WHERE user_id<>" ->
               <<us, ps, ps \ RowsOf(ps, v), FALSE>>
          [] text[1] = "DELETE FROM Portfolios " /\ text[2] = "WHERE user_id=" ->
               <<us, ps \ RowsOf(ps, v), {}, FALSE>>
          [] OTHER ->
               \* no such table
               <<us, ps, {}, TRUE>>

(***************************************************************************)
(* Query Translator: the statement search() sends for a query              *)
(***************************************************************************)
\* (variant: the patterns without the check of this.tableName)
TranslateAnyTable(table, q) ==
    IF Includes(q, "WHERE email=") /\ RegexMatch(q, "WHERE email=") # <<>>
      THEN [text |-> SelectUsersSQL,
            params |-> <<Joined(RegexMatch(q, "WHERE email=")[1])>>]
    ELSE IF Includes(q, "WHERE user_id=") /\ RegexMatch(q, "WHERE user_id=") # <<>>
      THEN [text |-> SelectPortfoliosSQL,
            params |-> <<Joined(RegexMatch(q, "WHERE user_id=")[1])>>]
    ELSE [text |-> q, params |-> <<>>]

\* (variant: the matched value spliced into the statement text)
TranslateConcat(table, q) ==
    IF Includes(q, "WHERE email=") /\ RegexMatch(q, "WHERE email=") # <<>> /\ table = "Users"
      THEN [text |-> <<"SELECT * FROM Users WHERE email = '",
                       Joined(RegexMatch(q, "WHERE email=")[1]), "'">>,
            params |-> <<>>]
    ELSE IF Includes(q, "WHERE user_id=") /\ RegexMatch(q, "WHERE user_id=") # <<>>
            /\ table = "Portfolios"
      THEN [text |-> <<"SELECT * FROM Portfolios WHERE user_id = '",
                       Joined(RegexMatch(q, "WHERE user_id=")[1]),
                       "' ORDER BY last_updated DESC LIMIT 1">>,
            params |-> <<>>]
    ELSE [text |-> q, params |-> <<>>]

Translate(table, q) ==
    LET emailMatch == RegexMatch(q, "WHERE email=")
        userIdMatch == RegexMatch(q, "WHERE user_id=")
    IN  IF Includes(q, "WHERE email=") /\ emailMatch # <<>> /\ table = "Users"
          THEN [text |-> SelectUsersSQL, params |-> <<Joined(emailMatch[1])>>]
        ELSE IF Includes(q, "WHERE user_id=") /\ userIdMatch # <<>> /\ table = "Portfolios"
          THEN [text |-> SelectPortfoliosSQL, params |-> <<Joined(userIdMatch[1])>>]
        ELSE \* Fallback for direct SQL
             [text |-> q, params |-> <<>>]

(***************************************************************************)
(* State                                                                   *)
(***************************************************************************)
VARIABLES
    users,       \* rows of table Users
    portfolios,  \* rows of table Portfolios
    userSeq,     \* last ROWID handed out for Users (AUTOINCREMENT)
    portSeq,     \* last ROWID handed out for Portfolios
    queue,       \* statements handed to the connection and not yet executed
    calls,       \* the adapter calls in flight: the promise each one returned
    clock,       \* new Date()
    crashed,     \* the process ended on an unhandled 'error' event
    signup,      \* per email, the outcomes of the inserts since it was last absent
    mig,         \* the migration job (its own process and connection)
    store        \* LocalDataStore: the schema and the promise of initialize()

vars == <<users, portfolios, userSeq, portSeq, queue, calls, clock, crashed, signup, mig,
          store>>

\* a password string: its first four characters and the rest
Pw(prefix, body) == [prefix |-> prefix, body |-> body]
Undefined == Pw("undefined", "")

\* userData.json as the job finds it: state is "ok", "absent", "unreadable" or
\* "malformed"; users lists the entries of userData.users in file order
NoFile == [state |-> "none", users |-> <<>>]

\* file: the snapshot this run loaded; faulted: the engine failed an insert of
\* this run; prev and clean: the snapshot the run before loaded and whether that
\* run met no engine error, kept until the next adapter call
MigIdle == [pc |-> "idle", todo |-> <<>>, outcome |-> "", backup |-> FALSE,
            file |-> NoFile, faulted |-> FALSE, prev |-> NoFile, clean |-> FALSE,
            base |-> 0]

\* LocalDataStore after initialize() has run against a complete database.
\* init: how the promise of the latest initialize() settled; failed: the schema
\* objects whose CREATE the engine turned down since that call
StoreReady == [opened |-> TRUE, schema |-> FullSchema, init |-> "ok", failed |-> {}]
\* new LocalDataStore() on a machine without a database file
StoreNew == [opened |-> FALSE, schema |-> {}, init |-> "none", failed |-> {}]

\* log: what the call has written to the console (no operation of LocalTable
\* writes anything)
IdleCall == [st |-> "idle", op |-> "", table |-> "", email |-> "",
             payload |-> JsString(""), query |-> <<>>, res |-> NoRes, cascaded |-> 0,
             rival |-> FALSE, log |-> {}]

Pending(op, table, e, p, q) ==
    [st |-> "pending", op |-> op, table |-> table, email |-> e,
     payload |-> p, query |-> q, res |-> NoRes, cascaded |-> 0, rival |-> FALSE,
     log |-> {}]

\* the promise settles: resolve(...) with kind "ok", reject(...) otherwise
Settle(call, kind, rows, changes) ==
    [call EXCEPT !.st = "done", !.email = "", !.payload = JsString(""), !.query = <<>>,
                 !.rival = FALSE,
                 !.res = [kind |-> kind, rows |-> rows, changes |-> changes]]

\* cb: whether db.run/db.all was given a callback; closure: the created_at the
\* insertRow callback closes over (0 elsewhere)
Stmt(c, text, params, excl, cb, closure) ==
    [call |-> c, text |-> text, params |-> params, excl |-> excl, cb |-> cb,
     closure |-> closure]

Remove(q, i) == SubSeq(q, 1, i - 1) \o SubSeq(q, i + 1, Len(q))

\* (variant: the two statements of deleteRows outside db.serialize())
EligibleParallel(i) == i \in 1..Len(queue)

\* db.serialize(): a serialized statement runs alone and in queue order; the
\* other statements run in any order among themselves
Eligible(i) ==
    /\ i \in 1..Len(queue)
    /\ IF queue[i].excl THEN i = 1 ELSE \A j \in 1..(i - 1) : ~queue[j].excl

Queued(text) == Cardinality({i \in 1..Len(queue) : queue[i].text = text})

Init ==
    /\ users = {}
    /\ portfolios = {}
    /\ userSeq = 0
    /\ portSeq = 0
    /\ queue = <<>>
    /\ calls = [c \in Calls |-> IdleCall]
    /\ clock = 1
    /\ crashed = FALSE
    /\ signup = [e \in Emails |-> <<>>]
    /\ mig = MigIdle
    /\ store = StoreReady

\* slot c holds no call that is still waiting for the engine
\* (the migration job runs to completion before the application serves calls)
CanIssue(c) == ~crashed /\ calls[c].st # "pending" /\ mig.pc = "idle"

\* calls on owner e that are in flight: a cascading delete, a write of a snapshot
DeleteInFlight(e) ==
    \E d \in Calls : /\ calls[d].st = "pending" /\ calls[d].op = "deleteRows"
                     /\ calls[d].email = e
WriteInFlight(e) ==
    \E d \in Calls : /\ calls[d].st = "pending" /\ calls[d].op \in {"insertRow", "updateRow"}
                     /\ calls[d].table = "Portfolios" /\ calls[d].email = e

(***************************************************************************)
(* LocalTable: the four operations.  rival notes, for a write of a         *)
(* snapshot, that a delete of the stored account of its owner was in       *)
(* flight when the call was made, and for a delete, that such a write was. *)
(***************************************************************************)
InsertRow(c, table, e, pw, nm, cr, p, lu) ==
    /\ CanIssue(c)
    /\ IF table = "Users" THEN
          /\ queue' = Append(queue,
                 Stmt(c, InsertUsersSQL, <<e, pw, nm, OrNow(cr, clock)>>, FALSE, TRUE, cr))
          /\ calls' = [calls EXCEPT ![c] = Pending("insertRow", table, e, JsString(""), <<>>)]
       ELSE IF table = "Portfolios" THEN
          /\ queue' = Append(queue,
                 Stmt(c, InsertPortfoliosSQL, <<e, Serialize(p), OrNow(lu, clock)>>, FALSE, TRUE, 0))
          /\ calls' = [calls EXCEPT ![c] =
                 [Pending("insertRow", table, e, p, <<>>)
                    EXCEPT !.rival = DeleteInFlight(e) /\ EmailTaken(users, e)]]
       ELSE
          /\ queue' = queue
          /\ calls' = [calls EXCEPT ![c] =
                 Settle(Pending("insertRow", table, e, JsString(""), <<>>), "Unsupported", {}, 0)]
    /\ mig' = MigIdle
    /\ UNCHANGED <<users, portfolios, userSeq, portSeq, clock, crashed, signup, store>>

UpdateRow(c, table, e, p) ==
    /\ CanIssue(c)
    /\ IF table = "Portfolios" THEN
          /\ queue' = Append(queue,
                 Stmt(c, UpdatePortfoliosSQL, <<Serialize(p), clock, e>>, FALSE, TRUE, 0))
          /\ calls' = [calls EXCEPT ![c] =
                 [Pending("updateRow", table, e, p, <<>>)
                    EXCEPT !.rival = DeleteInFlight(e) /\ EmailTaken(users, e)]]
       ELSE
          /\ queue' = queue
          /\ calls' = [calls EXCEPT ![c] =
                 Settle(Pending("updateRow", table, e, p, <<>>), "Unsupported", {}, 0)]
    /\ mig' = MigIdle
    /\ UNCHANGED <<users, portfolios, userSeq, portSeq, clock, crashed, signup, store>>

Search(c, table, q) ==
    /\ CanIssue(c)
    /\ LET t == Translate(table, q)
       IN  queue' = Append(queue, Stmt(c, t.text, t.params, FALSE, TRUE, 0))
    /\ calls' = [calls EXCEPT ![c] = Pending("search", table, "", JsString(""), q)]
    /\ mig' = MigIdle
    /\ UNCHANGED <<users, portfolios, userSeq, portSeq, clock, crashed, signup, store>>

\* criteria.email is "" when the caller gave none
DeleteRows(c, table, e) ==
    /\ CanIssue(c)
    /\ IF table = "Users" /\ e # "" THEN
          /\ queue' = queue \o <<Stmt(c, DeletePortfoliosSQL, <<e>>, TRUE, FALSE, 0),
                                 Stmt(c, DeleteUsersSQL, <<e>>, TRUE, TRUE, 0)>>
          /\ calls' = [calls EXCEPT ![c] =
                 [Pending("deleteRows", table, e, JsString(""), <<>>)
                    EXCEPT !.rival = WriteInFlight(e) /\ EmailTaken(users, e)]]
       ELSE
          /\ queue' = queue
          /\ calls' = [calls EXCEPT ![c] =
                 Settle(Pending("deleteRows", table, e, JsString(""), <<>>), "Unsupported", {}, 0)]
    /\ mig' = MigIdle
    /\ UNCHANGED <<users, portfolios, userSeq, portSeq, clock, crashed, signup, store>>

(***************************************************************************)
(* The engine executes a statement and the adapter's callback settles the  *)
(* promise.  One action per statement the adapter issues.                  *)
(***************************************************************************)
Note(hist, outcome) == IF Len(hist) < 2 THEN Append(hist, outcome) ELSE hist

InsertUsersCallback(i) ==
    /\ ~crashed /\ Eligible(i) /\ queue[i].text = InsertUsersSQL
    /\ LET s == queue[i]
           e == s.params[1]
           r == ExecInsertUsers(users, userSeq, e, s.params[2], s.params[3], s.params[4])
       IN  /\ users' = r.users
           /\ userSeq' = r.seq
           /\ calls' = [calls EXCEPT ![s.call] =
                  IF r.err # "" THEN Settle(@, r.err, {}, 0)
                  ELSE Settle(@, "ok", {UserRow(r.seq, e, s.params[2], s.params[3],
                                                OrNow(s.closure, clock))}, 1)]
           /\ signup' = [signup EXCEPT ![e] = Note(@, IF r.err # "" THEN r.err ELSE "ok")]
    /\ queue' = Remove(queue, i)
    /\ UNCHANGED <<portfolios, portSeq, clock, crashed, mig, store>>

InsertPortfoliosCallback(i) ==
    /\ ~crashed /\ Eligible(i) /\ queue[i].text = InsertPortfoliosSQL
    /\ LET s == queue[i]
           r == ExecInsertPortfolios(users, portfolios, portSeq,
                                     s.params[1], s.params[2], s.params[3])
       IN  /\ portfolios' = r.portfolios
           /\ portSeq' = r.seq
           /\ calls' = [calls EXCEPT ![s.call] =
                  IF r.err # "" THEN Settle(@, r.err, {}, 0)
                  ELSE Settle(@, "ok", {PortfolioRow(r.seq, s.params[1], s.params[2],
                                                     s.params[3])}, 1)]
    /\ queue' = Remove(queue, i)
    /\ UNCHANGED <<users, userSeq, clock, crashed, signup, mig, store>>

UpdatePortfoliosCallback(i) ==
    /\ ~crashed /\ Eligible(i) /\ queue[i].text = UpdatePortfoliosSQL
    /\ LET s == queue[i]
       IN  /\ portfolios' = UpdatePortfolios(portfolios, s.params[3], s.params[1], s.params[2])
           /\ calls' = [calls EXCEPT ![s.call] =
                  Settle(@, "ok", {}, Cardinality(RowsOf(portfolios, s.params[3])))]
    /\ queue' = Remove(queue, i)
    /\ UNCHANGED <<users, userSeq, portSeq, clock, crashed, signup, mig, store>>

SearchUsersCallback(i) ==
    /\ ~crashed /\ Eligible(i) /\ queue[i].text = SelectUsersSQL
    /\ calls' = [calls EXCEPT ![queue[i].call] =
           Settle(@, "ok", SelectUsers(users, queue[i].params[1]), 0)]
    /\ queue' = Remove(queue, i)
    /\ UNCHANGED <<users, portfolios, userSeq, portSeq, clock, crashed, signup, mig, store>>

SearchPortfoliosCallback(i) ==
    /\ ~crashed /\ Eligible(i) /\ queue[i].text = SelectPortfoliosSQL
    /\ \E rows \in SelectNewest(portfolios, queue[i].params[1]) :
           calls' = [calls EXCEPT ![queue[i].call] = Settle(@, "ok", rows, 0)]
    /\ queue' = Remove(queue, i)
    /\ UNCHANGED <<users, portfolios, userSeq, portSeq, clock, crashed, signup, mig, store>>

\* this.db.all(query, ...): the caller's text runs as written
SearchFallbackCallback(i) ==
    /\ ~crashed /\ Eligible(i) /\ queue[i].text \notin FixedSQL
    /\ LET r == ExecRaw(users, portfolios, queue[i].text)
       IN  /\ users' = r[1]
           /\ portfolios' = r[2]
           /\ calls' = [calls EXCEPT ![queue[i].call] =
                  IF r[4] THEN Settle(@, "Storage", {}, 0) ELSE Settle(@, "ok", r[3], 0)]
    /\ queue' = Remove(queue, i)
    /\ UNCHANGED <<userSeq, portSeq, clock, crashed, signup, mig, store>>

\* first statement of deleteRows: no callback, nothing settles
DeletePortfoliosDone(i) ==
    /\ ~crashed /\ Eligible(i) /\ queue[i].text = DeletePortfoliosSQL
    /\ LET s == queue[i]
       IN  /\ portfolios' = portfolios \ RowsOf(portfolios, s.params[1])
           /\ calls' = [calls EXCEPT ![s.call].cascaded =
                  Cardinality(RowsOf(portfolios, s.params[1]))]
    /\ queue' = Remove(queue, i)
    /\ UNCHANGED <<users, userSeq, portSeq, clock, crashed, signup, mig, store>>

\* (variant: the rows both statements removed, as db.total_changes would count)
DeletedRowsTotal(gone, cascaded) == Cardinality(gone) + cascaded

\* resolve({ deletedRows: this.changes }): this.changes of the second statement
DeletedRows(gone, cascaded) == Cardinality(gone)

DeleteUsersCallback(i) ==
    /\ ~crashed /\ Eligible(i) /\ queue[i].text = DeleteUsersSQL
    /\ LET s == queue[i]
           gone == SelectUsers(users, s.params[1])
       IN  /\ users' = users \ gone
           /\ calls' = [calls EXCEPT ![s.call] =
                  Settle(@, "ok", {}, DeletedRows(gone, calls[s.call].cascaded))]
           /\ signup' = [signup EXCEPT ![s.params[1]] = IF gone = {} THEN @ ELSE <<>>]
    /\ queue' = Remove(queue, i)
    /\ UNCHANGED <<portfolios, userSeq, portSeq, clock, crashed, mig, store>>

\* The engine reports an error for the statement (SQLITE_BUSY, SQLITE_IOERR, ...).
\* With a callback the promise is rejected with it.  Without one the error is
\* emitted as an 'error' event nobody listens to, which ends the process.
EngineError(i) ==
    /\ ~crashed /\ Eligible(i) /\ queue[i].text \notin CreateTexts
    /\ IF queue[i].cb THEN
          /\ calls' = [calls EXCEPT ![queue[i].call] = Settle(@, "Storage", {}, 0)]
          /\ queue' = Remove(queue, i)
          /\ crashed' = FALSE
       ELSE
          /\ calls' = calls
          /\ queue' = <<>>
          /\ crashed' = TRUE
    /\ UNCHANGED <<users, portfolios, userSeq, portSeq, clock, signup, mig, store>>

Tick ==
    /\ ~crashed
    /\ clock' = clock + 1
    /\ UNCHANGED <<users, portfolios, userSeq, portSeq, queue, calls, crashed, signup, mig, store>>

\* values callers pass where the claims at hand do not depend on them
Password == Pw("$2a$", "hashed")
Name == "User"
Holdings == JsObject("holdings1")

\* the server process starts anew: promises and queued statements are gone,
\* the database file stays
Restart ==
    /\ mig.pc = "idle"
    /\ calls' = [c \in Calls |-> IdleCall]
    /\ queue' = <<>>
    /\ crashed' = FALSE
    /\ UNCHANGED <<users, portfolios, userSeq, portSeq, clock, signup, mig, store>>

(***************************************************************************)
(* LocalDataStore: initialize and createTables                             *)
(***************************************************************************)
CreatesQueued == {i \in 1..Len(queue) : queue[i].text \in CreateTexts}

\* initialize(): open the database; in the open callback createTables queues the
\* five CREATE statements inside db.serialize and calls resolve() right after
\* queuing them.  opened: whether sqlite3 could open the file
Initialize(opened) ==
    /\ ~crashed /\ mig.pc = "idle" /\ CreatesQueued = {}
    /\ IF opened THEN
          /\ queue' = queue \o [k \in 1..Len(CreateSQL) |->
                                   Stmt(0, CreateSQL[k], <<>>, TRUE, TRUE, 0)]
          /\ store' = [store EXCEPT !.opened = TRUE, !.init = "ok", !.failed = {}]
       ELSE
          /\ queue' = queue
          /\ store' = [store EXCEPT !.opened = FALSE, !.init = "Storage", !.failed = {}]
    /\ UNCHANGED <<users, portfolios, userSeq, portSeq, calls, clock, crashed, signup, mig>>

\* a CREATE statement runs; its callback finds the promise already resolved, so
\* its reject(err) changes nothing
CreateCallback(i) ==
    /\ ~crashed /\ Eligible(i) /\ queue[i].text \in CreateTexts
    /\ LET r == ExecCreate(store.schema, users, portfolios, queue[i].text)
       IN  /\ users' = r.users
           /\ portfolios' = r.portfolios
           /\ store' = [store EXCEPT !.schema = r.schema,
                                     !.failed = IF r.err THEN @ \cup {Creates(queue[i].text)}
                                                ELSE @]
    /\ queue' = Remove(queue, i)
    /\ UNCHANGED <<userSeq, portSeq, calls, clock, crashed, signup, mig>>

\* the engine turns a CREATE statement down (disk full, read-only file, ...):
\* the callback logs the error and, for a table, calls reject(err) in vain
CreateError(i) ==
    /\ ~crashed /\ Eligible(i) /\ queue[i].text \in CreateTexts
    /\ store' = [store EXCEPT !.failed = @ \cup {Creates(queue[i].text)}]
    /\ queue' = Remove(queue, i)
    /\ UNCHANGED <<users, portfolios, userSeq, portSeq, calls, clock, crashed, signup, mig>>

(***************************************************************************)
(* migrate.js: migrateUserData                                             *)
(***************************************************************************)
\* bcrypt.hash(password, 12)
BcryptHash(pw) ==
    Pw("$2a$", CASE pw.body = "plain123" -> "bcrypt(plain123)"
                 [] pw.body = "hashed" -> "bcrypt($2a$hashed)"
                 [] OTHER -> "bcrypt(?)")

\* (variant: bcrypt.hash whatever the password looks like)
HashedPasswordAlways(pw) == BcryptHash(pw)

\* !password.startsWith('$2a$') && !password.startsWith('$2b$') ? hash : keep
HashedPassword(pw) ==
    IF pw.prefix # "$2a$" /\ pw.prefix # "$2b$" THEN BcryptHash(pw) ELSE pw

NoPortfolio == [t |-> "undefined", v |-> ""]
Entry(e, pw, pf) == [email |-> e, password |-> pw, portfolio |-> pf]

\* (variant: the loop without its try/catch, left at the first entry)
MigAdvanceStop(rest) == [mig EXCEPT !.pc = "backup", !.todo = rest]

\* after an entry of the loop: the next one, or the backup
MigAdvance(rest) ==
    [mig EXCEPT !.pc = IF rest = <<>> THEN "backup" ELSE "user", !.todo = rest]

\* (variant: the inner catch rethrows, so only a snapshot that loads goes on)
LoadedStrict(file) ==
    IF file.state # "ok"
      THEN [MigIdle EXCEPT !.pc = "exit", !.outcome = "fatal", !.file = file]
    ELSE IF file.users = <<>>
      THEN [MigIdle EXCEPT !.pc = "exit", !.outcome = "nothing", !.file = file]
      ELSE [MigIdle EXCEPT !.pc = "user", !.todo = file.users, !.file = file]

\* (variant: fs.copyFile right after the snapshot is parsed)
LoadedBackupFirst(file) ==
    IF file.state # "ok" \/ file.users = <<>>
      THEN [MigIdle EXCEPT !.pc = "exit", !.outcome = "nothing", !.file = file]
      ELSE [MigIdle EXCEPT !.pc = "user", !.todo = file.users, !.file = file,
                           !.backup = TRUE]

\* lines 22-33: any error of readFile or JSON.parse is taken for a missing file,
\* and a snapshot without users ends the job as well
Loaded(file) ==
    IF file.state # "ok" \/ file.users = <<>>
      THEN [MigIdle EXCEPT !.pc = "exit", !.outcome = "nothing", !.file = file]
      ELSE [MigIdle EXCEPT !.pc = "user", !.todo = file.users, !.file = file]

\* lines 13-35: read and parse userData.json
MigLoad(file) ==
    /\ ~crashed /\ mig.pc = "idle"
    /\ queue = <<>> /\ \A c \in Calls : calls[c].st = "idle"
    /\ mig' = [Loaded(file) EXCEPT !.prev = mig.prev, !.clean = mig.clean,
                                   !.base = userSeq]
    /\ UNCHANGED <<users, portfolios, userSeq, portSeq, queue, calls, clock, crashed, signup, store>>

\* (variant: the portfolio insert in a try of its own, after the catch of the
\* user insert)
MigrateUserKeepGoing(fault) ==
    /\ mig.pc = "user"
    /\ LET u == Head(mig.todo)
           r == ExecInsertUsers(users, userSeq, u.email, HashedPassword(u.password),
                                Name, clock)
           on == IF u.portfolio # NoPortfolio
                   THEN [mig EXCEPT !.pc = "portfolio"]
                   ELSE MigAdvance(Tail(mig.todo))
       IN  IF u.password = Undefined \/ fault THEN
              /\ mig' = [on EXCEPT !.faulted = @ \/ fault]
              /\ UNCHANGED <<users, userSeq, signup>>
           ELSE
              /\ users' = r.users
              /\ userSeq' = r.seq
              /\ signup' = [signup EXCEPT ![u.email] =
                                Note(@, IF r.err # "" THEN r.err ELSE "ok")]
              /\ mig' = on
    /\ UNCHANGED <<portfolios, portSeq, queue, calls, clock, crashed, store>>

\* lines 41-62 and 76-82: hash, insert the user; a failure is logged and the loop goes on
MigrateUser(fault) ==
    /\ mig.pc = "user"
    /\ LET u == Head(mig.todo)
           r == ExecInsertUsers(users, userSeq, u.email, HashedPassword(u.password),
                                Name, clock)
       IN  IF u.password = Undefined \/ fault THEN
              \* TypeError on user.password.startsWith, or an engine error
              /\ mig' = [MigAdvance(Tail(mig.todo)) EXCEPT !.faulted = @ \/ fault]
              /\ UNCHANGED <<users, userSeq, signup>>
           ELSE
              /\ users' = r.users
              /\ userSeq' = r.seq
              /\ signup' = [signup EXCEPT ![u.email] =
                                Note(@, IF r.err # "" THEN r.err ELSE "ok")]
              /\ mig' = IF r.err = "" /\ u.portfolio # NoPortfolio
                          THEN [mig EXCEPT !.pc = "portfolio"]
                          ELSE MigAdvance(Tail(mig.todo))
    /\ UNCHANGED <<portfolios, portSeq, queue, calls, clock, crashed, store>>

\* lines 64-74: the embedded portfolio
MigratePortfolio(fault) ==
    /\ mig.pc = "portfolio"
    /\ LET u == Head(mig.todo)
           r == ExecInsertPortfolios(users, portfolios, portSeq, u.email,
                    Serialize(JsString(JSONstringify(u.portfolio.v))), clock)
       IN  IF fault THEN UNCHANGED <<portfolios, portSeq>>
           ELSE /\ portfolios' = r.portfolios
                /\ portSeq' = r.seq
    /\ mig' = [MigAdvance(Tail(mig.todo)) EXCEPT !.faulted = @ \/ fault]
    /\ UNCHANGED <<users, userSeq, queue, calls, clock, crashed, signup, store>>

\* lines 85-96: copy userData.json to the backup path
MigBackup(copied) ==
    /\ mig.pc = "backup"
    /\ mig' = [mig EXCEPT !.pc = "exit", !.backup = copied,
                          !.outcome = IF copied THEN "ok" ELSE "fatal"]
    /\ UNCHANGED <<users, portfolios, userSeq, portSeq, queue, calls, clock, crashed, signup, store>>

\* process.exit
MigExit ==
    /\ mig.pc = "exit"
    /\ mig' = [MigIdle EXCEPT !.prev = mig.file, !.clean = ~mig.faulted]
    /\ UNCHANGED <<users, portfolios, userSeq, portSeq, queue, calls, clock, crashed, signup, store>>

\* room left in the AUTOINCREMENT range, counting the inserts already queued
UserIdsLeft(max) == userSeq + Queued(InsertUsersSQL) < max
PortIdsLeft(max) == portSeq + Queued(InsertPortfoliosSQL) < max


\* legacy snapshots: entries for distinct emails, in file order
LegacyEntries == {Entry(e, pw, pf) : e \in Emails,
                     pw \in {Pw("plai", "plain123"), Password, Undefined},
                     pf \in {NoPortfolio, Holdings}}
LegacyUsers == {<<>>} \cup {<<x>> : x \in LegacyEntries}
               \cup {<<x, y>> : x \in LegacyEntries,
                              y \in {z \in LegacyEntries : z.email = "b@x.com"}}
LegacyFiles == {[state |-> st, users |-> <<>>] : st \in {"absent", "unreadable", "malformed"}}
               \cup {[state |-> "ok", users |-> us] :
                        us \in {x \in LegacyUsers : Len(x) < 2 \/ x[1].email # x[2].email}}

(***************************************************************************)
(* Spec: accounts and their portfolios under concurrent calls.  Inserts    *)
(* into both tables, updates, cascading deletes and engine errors, for two *)
(* emails; the clock stands still.                                         *)
(***************************************************************************)
Next ==
    \/ \E c \in Calls, e \in Emails :
          UserIdsLeft(MaxUserRowId) /\ InsertRow(c, "Users", e, Password, Name, 0, Holdings, 0)
    \/ \E c \in Calls, e \in Emails :
          PortIdsLeft(MaxPortRowId) /\ InsertRow(c, "Portfolios", e, Password, Name, 0, Holdings, 0)
    \/ \E c \in Calls, e \in Emails : UpdateRow(c, "Portfolios", e, Holdings)
    \/ \E c \in Calls, e \in Emails : DeleteRows(c, "Users", e)
    \/ \E i \in 1..Len(queue) : InsertUsersCallback(i)
    \/ \E i \in 1..Len(queue) : InsertPortfoliosCallback(i)
    \/ \E i \in 1..Len(queue) : UpdatePortfoliosCallback(i)
    \/ \E i \in 1..Len(queue) : DeletePortfoliosDone(i)
    \/ \E i \in 1..Len(queue) : DeleteUsersCallback(i)
    \/ \E i \in 1..Len(queue) : EngineError(i)
    \/ Restart
    \/ \E file \in LegacyFiles : (mig.prev = NoFile \/ mig.prev = file) /\ MigLoad(file)
    \/ \E fault \in BOOLEAN : UserIdsLeft(MaxUserRowId) /\ MigrateUser(fault)
    \/ \E fault \in BOOLEAN : PortIdsLeft(MaxPortRowId) /\ MigratePortfolio(fault)
    \/ \E copied \in BOOLEAN : MigBackup(copied)
    \/ MigExit

Spec == Init /\ [][Next]_vars

(***************************************************************************)
(* SpecCalls: the four operations on every table name, with the engine     *)
(* bound to answer every statement it was given, with rows or an error.    *)
(***************************************************************************)
\* the engine answers one of the statements call c has queued
Answer(c) ==
    \E i \in {j \in 1..Len(queue) : queue[j].call = c} :
        \/ InsertUsersCallback(i)
        \/ InsertPortfoliosCallback(i)
        \/ UpdatePortfoliosCallback(i)
        \/ SearchUsersCallback(i)
        \/ SearchPortfoliosCallback(i)
        \/ SearchFallbackCallback(i)
        \/ DeletePortfoliosDone(i)
        \/ DeleteUsersCallback(i)
        \/ EngineError(i)

NextCalls ==
    \/ \E c \in Calls, table \in TableNames :
          /\ UserIdsLeft(MaxUserRowId) /\ PortIdsLeft(MaxPortRowId)
          /\ InsertRow(c, table, "a@x.com", Password, Name, 0, Holdings, 0)
    \/ \E c \in Calls, table \in TableNames : UpdateRow(c, table, "a@x.com", Holdings)
    \/ \E c \in Calls, table \in TableNames,
           q \in {ByEmail("a@x.com"), ByOwner("a@x.com"), FromOrders} : Search(c, table, q)
    \/ \E c \in Calls, table \in TableNames, e \in {"a@x.com", ""} : DeleteRows(c, table, e)
    \/ \E c \in Calls : Answer(c)

SpecCalls == Init /\ [][NextCalls]_vars /\ \A c \in Calls : WF_vars(Answer(c))

(***************************************************************************)
(* SpecSearch: the Query Translator and the table-name dispatch.  Searches *)
(* with every query on every table name, the other operations on names and *)
(* criteria they do not support, and inserts that give the searches rows.  *)
(***************************************************************************)
NextSearch ==
    \/ \E c \in Calls, table \in TableNames, q \in Queries : Search(c, table, q)
    \/ \E c \in Calls : InsertRow(c, "Orders", "a@x.com", Password, Name, 0, Holdings, 0)
    \/ \E c \in Calls, table \in {"Orders", "Users"} : UpdateRow(c, table, "a@x.com", Holdings)
    \/ \E c \in Calls, table \in {"Orders", "Portfolios"}, e \in {"a@x.com", ""} :
          (table = "Orders" \/ e = "") /\ DeleteRows(c, table, e)
    \/ \E c \in Calls :
          UserIdsLeft(1) /\ InsertRow(c, "Users", "a@x.com", Password, Name, 0, Holdings, 0)
    \/ \E c \in Calls, e \in Emails :
          PortIdsLeft(MaxPortRowId) /\ InsertRow(c, "Portfolios", e, Password, Name, 0, Holdings, 0)
    \/ \E i \in 1..Len(queue) : InsertUsersCallback(i)
    \/ \E i \in 1..Len(queue) : InsertPortfoliosCallback(i)
    \/ \E i \in 1..Len(queue) : SearchUsersCallback(i)
    \/ \E i \in 1..Len(queue) : SearchPortfoliosCallback(i)
    \/ \E i \in 1..Len(queue) : SearchFallbackCallback(i)
    \/ \E i \in 1..Len(queue) : EngineError(i)

SpecSearch == Init /\ [][NextSearch]_vars

(***************************************************************************)
(* SpecPortfolio: snapshots of the two owners over time.  One call at a    *)
(* time inserts with either kind of payload and any timestamp (or none),   *)
(* updates and searches by owner, while the clock advances.                *)
(***************************************************************************)
NextPortfolio ==
    \/ \E e \in Emails, p \in Payloads, lu \in OptTimes :
          PortIdsLeft(MaxHistory) /\ InsertRow(1, "Portfolios", e, Password, Name, 0, p, lu)
    \/ \E e \in Emails : UpdateRow(1, "Portfolios", e, Holdings)
    \/ \E e \in Emails : Search(1, "Portfolios", ByOwner(e))
    \/ \E i \in 1..Len(queue) : InsertPortfoliosCallback(i)
    \/ \E i \in 1..Len(queue) : UpdatePortfoliosCallback(i)
    \/ \E i \in 1..Len(queue) : SearchPortfoliosCallback(i)
    \/ clock < MaxClock /\ Tick

SpecPortfolio == Init /\ [][NextPortfolio]_vars

(***************************************************************************)
(* SpecMigrate: the migration job, run again and again on the snapshot the *)
(* machine holds: up to two entries with plaintext, hashed and missing     *)
(* passwords, with and without an embedded portfolio.  The engine may fail *)
(* any insert and the copy of the backup may fail.                         *)
(***************************************************************************)
Passwords == {Pw("plai", "plain123"), Password, Pw("$2b$", "hashed"), Undefined}
MigEntries == {Entry(e, pw, pf) : e \in Emails, pw \in Passwords,
                                  pf \in {NoPortfolio, Holdings}}
MigFiles == {[state |-> st, users |-> <<>>] : st \in {"ok", "absent", "unreadable", "malformed"}}
            \cup {[state |-> "ok", users |-> <<x>>] : x \in MigEntries}
            \cup {[state |-> "ok", users |-> xy] :
                     xy \in {z \in MigEntries \X MigEntries : z[1].email # z[2].email}}

\* a step of the job once it has loaded a snapshot
MigStep ==
    \/ \E fault \in BOOLEAN : MigrateUser(fault)
    \/ \E fault \in BOOLEAN : MigratePortfolio(fault)
    \/ \E copied \in BOOLEAN : MigBackup(copied)
    \/ MigExit

NextMigrate ==
    \/ \E file \in MigFiles : (mig.prev = NoFile \/ mig.prev = file) /\ MigLoad(file)
    \/ \E fault \in BOOLEAN : MigrateUser(fault)
    \/ \E fault \in BOOLEAN : MigratePortfolio(fault)
    \/ \E copied \in BOOLEAN : MigBackup(copied)
    \/ MigExit

SpecMigrate == Init /\ [][NextMigrate]_vars

\* the job is one sequential async function: every await of it settles
SpecMigrateFair == Init /\ [][NextMigrate]_vars /\ WF_vars(MigStep)

(***************************************************************************)
(* SpecInit: the Schema Initializer.  A data store on a machine without a  *)
(* database file; initialize() is called again and again between the      *)
(* inserts and cascading deletes of one caller, and the engine may turn    *)
(* any CREATE down.                                                        *)
(***************************************************************************)
InitNew ==
    /\ users = {}
    /\ portfolios = {}
    /\ userSeq = 0
    /\ portSeq = 0
    /\ queue = <<>>
    /\ calls = [c \in Calls |-> IdleCall]
    /\ clock = 1
    /\ crashed = FALSE
    /\ signup = [e \in Emails |-> <<>>]
    /\ mig = MigIdle
    /\ store = StoreNew

\* the application uses a table once initialize() has resolved and the table exists
Usable(table) == store.init = "ok" /\ table \in store.schema

NextInit ==
    \/ \E opened \in BOOLEAN : Initialize(opened)
    \/ \E i \in 1..Len(queue) : CreateCallback(i)
    \/ \E i \in 1..Len(queue) : CreateError(i)
    \/ /\ Usable("Users") /\ UserIdsLeft(MaxUserRowId)
       /\ InsertRow(1, "Users", "a@x.com", Password, Name, 0, Holdings, 0)
    \/ /\ Usable("Portfolios") /\ PortIdsLeft(MaxPortRowId)
       /\ InsertRow(1, "Portfolios", "a@x.com", Password, Name, 0, Holdings, 0)
    \/ Usable("Users") /\ Usable("Portfolios") /\ DeleteRows(1, "Users", "a@x.com")
    \/ \E i \in 1..Len(queue) : InsertUsersCallback(i)
    \/ \E i \in 1..Len(queue) : InsertPortfoliosCallback(i)
    \/ \E i \in 1..Len(queue) : DeletePortfoliosDone(i)
    \/ \E i \in 1..Len(queue) : DeleteUsersCallback(i)

SpecInit == InitNew /\ [][NextInit]_vars

(***************************************************************************)
(* Properties                                                              *)
(***************************************************************************)
\* call c settles in this step
Settles(c) == calls[c].st = "pending" /\ calls'[c].st = "done"

\* C1: in every reachable state no two Users rows have the same email.
C1_EmailUnique ==
    \A r1 \in users, r2 \in users : r1.email = r2.email => r1 = r2

\* C1 witness: two accounts are stored and an insert was turned down as a duplicate
C1_Witness ==
    /\ Cardinality(users) = 2
    /\ \E c \in Calls : calls[c].op = "insertRow" /\ calls[c].res.kind = "Conflict"

\* C2: of two inserts of an Account with the same email (issued one after the
\* other or concurrently) exactly one succeeds and the other fails with Conflict.
C2_OneSuccessOneConflict ==
    \A e \in Emails :
        Len(signup[e]) = 2 =>
            /\ Cardinality({k \in 1..2 : signup[e][k] = "ok"}) = 1
            /\ Cardinality({k \in 1..2 : signup[e][k] = "Conflict"}) = 1

\* C2 witness: two concurrent insertRow calls for one email have both settled,
\* one with the row, the other with Conflict
C2_Witness ==
    \E e \in Emails, c \in Calls, d \in Calls :
        /\ signup[e] = <<"ok", "Conflict">>
        /\ userSeq = 1
        /\ calls[c].op = "insertRow" /\ calls[c].table = "Users"
        /\ calls[c].res.kind = "ok" /\ \E r \in calls[c].res.rows : r.email = e
        /\ calls[d].op = "insertRow" /\ calls[d].table = "Users"
        /\ calls[d].res.kind = "Conflict"

\* C3: when deleteRows on Users with an email settles successfully, no Portfolios
\* row of that owner is stored and a search by that owner finds no row.
C3_CascadeRemovesSnapshots ==
    [][\A c \in Calls :
          (Settles(c) /\ calls[c].op = "deleteRows" /\ calls'[c].res.kind = "ok") =>
              /\ RowsOf(portfolios', calls[c].email) = {}
              /\ SelectNewest(portfolios', calls[c].email) = {{}}]_vars

\* C3 witness: a deleteRows settled after removing an account and a snapshot of it
C3_Witness ==
    \E c \in Calls :
        /\ calls[c].st = "done" /\ calls[c].op = "deleteRows"
        /\ calls[c].res.kind = "ok" /\ calls[c].res.changes = 1
        /\ calls[c].cascaded >= 1

\* C4: the cascade delete is one atomic unit: a deleteRows that reports an error
\* has left the stored rows as they were, so none of its steps has taken effect.
C4_AtomicCascade ==
    \A c \in Calls :
        (calls[c].st = "done" /\ calls[c].op = "deleteRows" /\ calls[c].res.kind = "Storage")
            => calls[c].cascaded = 0

\* C5: every Portfolios row's user_id is the email of a stored Users row.
C5_ReferentialIntegrity ==
    \A p \in portfolios : EmailTaken(users, p.user_id)

\* the two filter shapes of the query sub-grammar: an equality filter with one
\* quoted value, on email for Users and on user_id for Portfolios
EqualityFilter(q, field) ==
    Len(q) = 5 /\ q[2] = field /\ q[3] = "'" /\ q[4] # "'" /\ q[5] = "'"
Recognized(table, q) ==
    \/ table = "Users" /\ EqualityFilter(q, "WHERE email=")
    \/ table = "Portfolios" /\ EqualityFilter(q, "WHERE user_id=")
DifferOnlyInValue(q1, q2) ==
    /\ Len(q1) = 5 /\ Len(q2) = 5 /\ q1[4] # q2[4]
    /\ \A k \in {1, 2, 3, 5} : q1[k] = q2[k]
\* the statements in the queue that come from search calls
SearchStmts == {i \in 1..Len(queue) : calls[queue[i].call].op = "search"}

\* C6: on a table name outside {Users, Portfolios} every operation fails with an
\* Unsupported-Table error at once and hands no statement to the engine.
C6_UnknownTableRejected ==
    \A c \in Calls :
        (calls[c].st # "idle" /\ calls[c].table \notin {"Users", "Portfolios"}) =>
            /\ calls[c].st = "done" /\ calls[c].res.kind = "Unsupported"
            /\ \A i \in 1..Len(queue) : queue[i].call # c

C9_NewestWins ==
    [][\A c \in Calls :
          (Settles(c) /\ calls[c].op = "search" /\ calls'[c].res.kind = "ok") =>
              LET mine == {r \in portfolios : r.user_id = calls[c].query[4]}
                  got == calls'[c].res.rows
              IN  IF mine = {} THEN got = {}
                  ELSE \E r \in mine :
                          /\ got = {r}
                          /\ \A y \in mine : y.last_updated <= r.last_updated]_vars

\* C9 witness: an owner has three rows written at t1 < t2 < t3, the one at t3
\* inserted first, and the search returned the row written at t3
C9_Witness ==
    \E c \in Calls, r \in portfolios :
        /\ calls[c].st = "done" /\ calls[c].op = "search" /\ calls[c].res.rows = {r}
        /\ r.ROWID = 1 /\ r.last_updated = 3
        /\ {y.last_updated : y \in RowsOf(portfolios, r.user_id)} = {1, 2, 3}
        /\ Cardinality(RowsOf(portfolios, r.user_id)) = 3

\* JSON.parse on the stored texts of the model
JSONparse(text) ==
    CASE text = "{\"h\":1}" -> JsObject("holdings1")
      [] text = "{\"h\":2}" -> JsObject("holdings2")
      [] OTHER -> JsString(text)

\* an insertRow into Portfolios settles with a row newer than every other row of
\* its owner
InsertsNewest(c) ==
    /\ Settles(c) /\ calls[c].op = "insertRow" /\ calls[c].table = "Portfolios"
    /\ calls'[c].res.kind = "ok"
    /\ \A r \in calls'[c].res.rows :
          \A y \in RowsOf(portfolios, calls[c].email) : y.last_updated < r.last_updated

HashPrefixes == {"$2a$", "$2b$"}
\* the entries of the snapshot the job has loaded
FileEntries == {mig.file.users[k] : k \in 1..Len(mig.file.users)}

\* C11: a run of the migration job on the snapshot of the run before, when that
\* run met no engine error, adds no Users or Portfolios row and changes no
\* stored password: the rows are those the first run left.
C11_MigrationIdempotent ==
    [][(mig.pc \in {"user", "portfolio"} /\ mig.prev = mig.file /\ mig.clean) =>
          /\ users' = users /\ portfolios' = portfolios
          /\ userSeq' = userSeq /\ portSeq' = portSeq]_vars

\* C11 witness: the second run on a snapshot of two entries has gone through its
\* loop with both accounts and a portfolio already stored
C11_Witness ==
    /\ mig.pc = "exit" /\ mig.outcome = "ok" /\ ~mig.faulted
    /\ mig.prev = mig.file /\ mig.clean
    /\ Len(mig.file.users) = 2 /\ Cardinality(users) = 2 /\ portfolios # {}

\* C12: the row the job stores for an entry holds a bcrypt hash different from
\* the legacy password when that password has no hash prefix, and the legacy
\* password itself when it has one; no stored password lacks a hash prefix.
C12_NoPlaintextStored ==
    [][(mig.pc = "user" /\ users' # users) =>
          LET u == Head(mig.todo)
          IN  /\ \E r \in users' \ users :
                    /\ r.email = u.email
                    /\ IF u.password.prefix \in HashPrefixes
                         THEN r.password = u.password
                         ELSE r.password # u.password /\ r.password.prefix \in HashPrefixes
              /\ \A r \in users' : r.password.prefix \in HashPrefixes]_vars

\* C12 witness: a plaintext password was stored hashed and a $2b$ hash as it was
C12_Witness ==
    /\ mig.pc = "exit"
    /\ \E x \in FileEntries, r \in users :
          /\ x.password = Pw("plai", "plain123") /\ r.email = x.email
          /\ r.password = BcryptHash(x.password)
    /\ \E y \in FileEntries, r \in users :
          /\ y.password = Pw("$2b$", "hashed") /\ r.email = y.email
          /\ r.password = y.password

\* C13: the job ends in its fatal-error state when the snapshot is there but
\* cannot be read or parsed, and when the backup could not be written.
C13_LoadFailureFatal ==
    mig.pc = "exit" =>
        /\ mig.file.state \in {"unreadable", "malformed"} => mig.outcome = "fatal"
        /\ (mig.file.state = "ok" /\ mig.file.users # <<>> /\ ~mig.backup)
              => mig.outcome = "fatal"

C15_LoopGoesOn ==
    /\ [][mig.pc \in {"user", "portfolio"} =>
             \/ mig.pc = "user" /\ mig'.pc = "portfolio" /\ mig'.todo = mig.todo
             \/ /\ mig'.todo = Tail(mig.todo)
                /\ mig'.pc = IF Tail(mig.todo) = <<>> THEN "backup" ELSE "user"]_vars
    /\ [](mig.pc = "user" => <>(mig.pc = "backup" /\ mig.todo = <<>>))
    /\ [](mig.pc = "backup" => <>(mig.pc = "exit" /\ mig.outcome \in {"ok", "fatal"}))

\* C15 witness: the first entry had no password and was skipped; the job still
\* stored the account of the second entry and wrote the backup
C15_Witness ==
    /\ mig.pc = "exit" /\ mig.backup /\ Len(mig.file.users) = 2
    /\ mig.file.users[1].password = Undefined
    /\ ~EmailTaken(users, mig.file.users[1].email)
    /\ EmailTaken(users, mig.file.users[2].email)

\* C16: a job that loaded a snapshot and ended successfully has written the
\* backup, and the backup is written only once the loop is over.
C16_BackupWheneverLoaded ==
    /\ (mig.pc = "exit" /\ mig.file.state = "ok" /\ mig.outcome \in {"ok", "nothing"})
          => mig.backup
    /\ mig.backup => mig.pc = "exit" /\ mig.todo = <<>>

\* C16 as amended: a job that loaded a snapshot with at least one entry and ended
\* successfully has written the backup, only once the loop is over; a snapshot
\* without entries ends the job successfully with no backup.
C16_BackupAfterLoop ==
    /\ (mig.pc = "exit" /\ mig.file.state = "ok" /\ mig.file.users # <<>>
           /\ mig.outcome \in {"ok", "nothing"}) => mig.backup
    /\ (mig.pc = "exit" /\ mig.file.state = "ok" /\ mig.file.users = <<>>)
          => mig.outcome = "nothing" /\ ~mig.backup
    /\ mig.backup => mig.pc = "exit" /\ mig.todo = <<>> /\ mig.outcome = "ok"

\* C16 witness: the backup of a snapshot of two entries was written after both
\* accounts were stored
C16_Witness ==
    /\ mig.pc = "exit" /\ mig.backup /\ mig.outcome = "ok"
    /\ Len(mig.file.users) = 2 /\ Cardinality(users) = 2

\* C17: when a run that met no engine error has ended, every entry of the
\* snapshot with a password and an embedded portfolio has a Portfolios row
\* under its email, also when the run follows one that failed in part.
C17_PortfolioCarriedOver ==
    (mig.pc = "exit" /\ mig.outcome = "ok" /\ ~mig.faulted) =>
        \A x \in FileEntries :
            (x.portfolio # NoPortfolio /\ x.password # Undefined)
                => RowsOf(portfolios, x.email) # {}

\* C18: initialize() may be called any number of times between adapter calls:
\* it succeeds, and neither it nor the statements it queues change a stored row
\* or drop a schema object; a complete schema stays exactly as it is.
C18_InitializeIdempotent ==
    [][(store' # store \/ Cardinality(CreatesQueued') # Cardinality(CreatesQueued)) =>
          /\ users' = users /\ portfolios' = portfolios
          /\ userSeq' = userSeq /\ portSeq' = portSeq
          /\ store.schema \subseteq store'.schema
          /\ store.schema = FullSchema => store'.schema = FullSchema
          /\ Len(queue') > Len(queue) => store'.init = "ok"]_vars

\* C18 witness: initialize() was called again while an account and a snapshot
\* were stored, and some of its CREATE statements have run
C18_Witness ==
    /\ store.init = "ok" /\ store.schema = FullSchema
    /\ users # {} /\ portfolios # {}
    /\ CreatesQueued # {} /\ Cardinality(CreatesQueued) < Len(CreateSQL)

\* C19: when the engine turned down the CREATE of a table or of an index,
\* initialize() has not reported success.
C19_CreateFailurePropagated ==
    store.failed # {} => store.init # "ok"

\* C20: when a deleteRows of the stored account e and an insertRow or updateRow
\* of a snapshot owned by e were in flight together, then once the later of the
\* two has settled no Portfolios row of e is stored without a Users row for e.
C20_CascadeSerialized ==
    [][\A c \in Calls :
          (/\ Settles(c) /\ calls[c].rival
           /\ ~DeleteInFlight(calls[c].email)' /\ ~WriteInFlight(calls[c].email)')
              => (RowsOf(portfolios', calls[c].email) # {}
                    => EmailTaken(users', calls[c].email))]_vars

\* C21: an updateRow on Portfolios whose owner has no row settles without an
\* error and with a count of zero, and no Users or Portfolios row is changed or
\* created (an engine failure aside).
C21_UpdateOfNothing ==
    [][\A c \in Calls :
          (/\ Settles(c) /\ calls[c].op = "updateRow" /\ calls[c].table = "Portfolios"
           /\ ~\E r \in portfolios : r.user_id = calls[c].email
           /\ calls'[c].res.kind # "Storage")
              => /\ calls'[c].res.kind = "ok" /\ calls'[c].res.changes = 0
                 /\ users' = users /\ portfolios' = portfolios
                 /\ userSeq' = userSeq /\ portSeq' = portSeq]_vars

\* C21 witness: an updateRow settled with a count of zero while an account and a
\* snapshot of the other owner were stored
C21_Witness ==
    \E c \in Calls :
        /\ calls[c].st = "done" /\ calls[c].op = "updateRow"
        /\ calls[c].res.kind = "ok" /\ calls[c].res.changes = 0
        /\ users # {} /\ portfolios # {}

\* C22: a deleteRows on Users that settles successfully reports the number of
\* Users rows it removed: 1 when a row with the email was stored, 0 when none was.
C22_DeletedCount ==
    [][\A c \in Calls :
          (Settles(c) /\ calls[c].op = "deleteRows" /\ calls'[c].res.kind = "ok") =>
              /\ calls'[c].res.changes = Cardinality(users \ users')
              /\ calls'[c].res.changes =
                    IF \E r \in users : r.email = calls[c].email THEN 1 ELSE 0
              /\ users' \subseteq users]_vars

\* C22 witness: one deleteRows removed an account together with a snapshot and
\* reported 1, another found no account and reported 0
C22_Witness ==
    \E c \in Calls, d \in Calls :
        /\ calls[c].st = "done" /\ calls[c].op = "deleteRows" /\ calls[c].res.kind = "ok"
        /\ calls[c].res.changes = 1 /\ calls[c].cascaded = 1
        /\ calls[d].st = "done" /\ calls[d].op = "deleteRows" /\ calls[d].res.kind = "ok"
        /\ calls[d].res.changes = 0

\* C23: an insertRow on Users whose email is stored when the statement runs
\* fails; the failure is Conflict whenever the engine ran the statement, and
\* Storage only when the engine itself failed.  No row is changed: the stored
\* account keeps its password, name and timestamp.
C23_ConflictKeepsAccount ==
    [][\A c \in Calls :
          (/\ Settles(c) /\ calls[c].op = "insertRow" /\ calls[c].table = "Users"
           /\ \E r \in users : r.email = calls[c].email)
              => /\ calls'[c].res.kind \in {"Conflict", "Storage"}
                 /\ signup'[calls[c].email] # signup[calls[c].email]
                       => calls'[c].res.kind = "Conflict"
                 /\ users' = users /\ portfolios' = portfolios]_vars

\* C23 witness: of two inserts of a stored email one settled with Conflict and
\* one with the Storage error of the engine
C23_Witness ==
    \E c \in Calls, d \in Calls :
        /\ calls[c].op = "insertRow" /\ calls[c].table = "Users"
        /\ calls[c].res.kind = "Conflict"
        /\ calls[d].op = "insertRow" /\ calls[d].table = "Users"
        /\ calls[d].res.kind = "Storage"
        /\ Cardinality(users) = 1

\* C24: whenever search hands a query to the engine as written, the call has
\* logged a warning by then.
C24_PassThroughWarned ==
    \A i \in SearchStmts :
        queue[i].text \notin FixedSQL => "warning" \in calls[queue[i].call].log

\* C26: an updateRow on Portfolios that settles successfully has changed at
\* most one row, and every row of the owner that was not the newest keeps its
\* payload and its last_updated.
C26_OnlyNewestOverwritten ==
    [][\A c \in Calls :
          (Settles(c) /\ calls[c].op = "updateRow" /\ calls'[c].res.kind = "ok") =>
              /\ Cardinality(portfolios \ portfolios') <= 1
              /\ \A r \in portfolios :
                    (/\ r.user_id = calls[c].email
                     /\ \E y \in portfolios : /\ y.user_id = r.user_id
                                                /\ y.last_updated > r.last_updated)
                        => r \in portfolios']_vars

\* C27: a search, whatever the table name and the query, leaves the Users rows
\* and the Portfolios rows as they were.
C27_SearchReadOnly ==
    [][\A c \in Calls :
          (Settles(c) /\ calls[c].op = "search")
              => users' = users /\ portfolios' = portfolios]_vars

\* C28: whenever initialize() has reported success, the Users table and the
\* Portfolios table exist.
C28_SuccessMeansTables ==
    store.init = "ok" => {"Users", "Portfolios"} \subseteq store.schema

\* C25: every call of insertRow, updateRow, search or deleteRows that is waiting
\* for the engine eventually settles, with a result or with an error.
C25_EveryCallCompletes ==
    \A c \in Calls : [](calls[c].st = "pending" => <>(calls[c].st = "done"))

\* C29: a migration run inserts a Portfolios row only for an email whose Users
\* row it has inserted itself, and an entry whose user insert stored nothing
\* gets no Portfolios insert.
C29_SnapshotAfterAccount ==
    [][/\ \A r \in portfolios' \ portfolios :
             \E u \in users : u.email = r.user_id /\ u.ROWID > mig.base
       /\ (mig.pc = "user" /\ users' = users)
             => portfolios' = portfolios /\ mig'.pc # "portfolio"]_vars

\* a second run has skipped an entry with a portfolio as already migrated,
\* leaving it without a Portfolios row, and has migrated another entry with
\* its portfolio
C29_Witness ==
    /\ mig.pc = "backup" /\ mig.base >= 1
    /\ \E x \in FileEntries :
          /\ x.portfolio # NoPortfolio
          /\ \E u \in users : u.email = x.email /\ u.ROWID <= mig.base
          /\ \A r \in portfolios : r.user_id # x.email
    /\ \E r \in portfolios, u \in users : u.email = r.user_id /\ u.ROWID > mig.base

\* C30: deleteRows on Users with email e leaves every Users row with another
\* email and every Portfolios row of another owner as it was: the call itself
\* writes nothing, and each of its two statements touches rows keyed by e only.
C30_DeleteTouchesOnlyKey ==
    [][/\ \A c \in Calls :
             (calls'[c] # calls[c] /\ calls[c].st # "pending" /\ calls'[c].op = "deleteRows")
                 => users' = users /\ portfolios' = portfolios
       /\ (/\ queue # <<>>
           /\ queue[1].text \in {DeletePortfoliosSQL, DeleteUsersSQL}
           /\ queue' = Tail(queue))
             => /\ {u \in users : u.email # queue[1].params[1]}
                      = {u \in users' : u.email # queue[1].params[1]}
                /\ {r \in portfolios : r.user_id # queue[1].params[1]}
                      = {r \in portfolios' : r.user_id # queue[1].params[1]}]_vars

\* a deleteRows has removed the second account and its snapshot while the first
\* account and its snapshot, stored before, are still there
C30_Witness ==
    /\ \E c \in Calls : /\ calls[c].st = "done" /\ calls[c].op = "deleteRows"
                         /\ calls[c].res.kind = "ok" /\ calls[c].res.changes = 1
                         /\ calls[c].cascaded = 1
    /\ userSeq = 2 /\ portSeq = 2
    /\ \E u \in users, r \in portfolios :
          u.ROWID = 1 /\ r.ROWID = 1 /\ r.user_id = u.email

====
